---- MODULE Spec2Model ----
(***************************************************************************)
(* A model of tracker.py: the sponsor-register tracker.  One invocation of *)
(* main() fetches a snapshot, merges it into the persisted master register *)
(* (update_master_register), and then writes the stats snapshot            *)
(* (generate_stats), the history ledger (update_history_log) and the daily *)
(* delta (generate_daily_delta).  The four files persist between runs.     *)
(*                                                                         *)
(* Text is a sequence of one-character strings.  A date is the triple      *)
(* <<year, month, day>> that a 'YYYY-MM-DD' string denotes: equality and   *)
(* lexicographic order of the fixed-width strings are equality and         *)
(* lexicographic order of the triples.  None / NaN in a date column is     *)
(* Null; NaN in a text column is NaNText.  The master register is kept as  *)
(* the table pd.read_csv gives from MASTER_FILE.                           *)
(***************************************************************************)
EXTENDS Integers, Sequences, FiniteSets, TLC

VARIABLES
    masterFile,   \* MASTER_FILE: the persisted master register, as read_csv reads it
    statsFile,    \* STATS_FILE: the persisted stats document, or NoFile
    historyFile,  \* HISTORY_FILE: the persisted ledger (sequence of entries)
    deltaFile,    \* DELTA_FILE: the persisted delta document, or NoFile
    pc,           \* position of the current invocation of main()
    file_date,    \* main(): file_date returned by get_csv_url
    new_df,       \* main(): the snapshot returned by download_csv
    master_df,    \* main(): the table returned by update_master_register
    data_date,    \* main(): the date returned by update_master_register
    runs,         \* number of invocations of main() so far (also the wall clock)
    applied,      \* history: <<snapshot, date>> of the last update_master_register call
    pre,          \* history: the four files as they were when the current run started
    ledgerDates,  \* history: the dates update_history_log has been called with
    order,        \* history: "increasing", "nondecreasing" or "any": how the dates
                  \* of the update_master_register calls so far were ordered
    rerun,        \* history: this run follows a run that completed and (once it
                  \* has called update_master_register) has its snapshot and date
    statsArgs     \* history: <<table, date>> of the last generate_stats call

vars == <<masterFile, statsFile, historyFile, deltaFile, pc, file_date, new_df,
          master_df, data_date, runs, applied, pre, ledgerDates, order, rerun,
          statsArgs>>

Null == <<>>

NaNText == <<"NaN">>

NoFile == [missing |-> TRUE]

\* MASTER_FILE or HISTORY_FILE holding bytes that pd.read_csv / json.load reject
CorruptFile == << [corrupt |-> TRUE] >>

(***************************************************************************)
(* Bounds and input sets.                                                  *)
(***************************************************************************)
MaxRuns == 3

BaselineDate == <<2026, 1, 15>>

Dates == { <<2025, 12, 31>>, BaselineDate, <<2026, 1, 16>> }

Txt(org, city, route) ==
    [org |-> org, city |-> city, county |-> <<"k">>, rating |-> <<"A">>, route |-> route]

RowA  == Txt(<<"a">>, <<"l", "o">>, <<"r">>)
RowA2 == Txt(<<" ", "a">>, <<"L", "O", " ">>, <<"r">>)
RowB  == Txt(<<"b">>, <<"l", "o">>, <<" ">>)

Snapshots == { <<RowA>>, <<RowB>>, <<RowA2, RowB, RowA>> }

\* Raw cells for generate_unique_id taken alone: surrounding blanks, both
\* letter cases, and the character the id is joined with.
IdOrgs == { <<"a">>, <<" ", "a">>, <<"b">>, <<"a", "|", "L", "o">> }

IdCities == { <<"x">>, <<"X">>, <<"l", "o">>, <<"L", "o", "|", "x">> }

IdRows == { Txt(o, c, <<"r">>) : o \in IdOrgs, c \in IdCities }

(***************************************************************************)
(* Text helpers: str.strip and str.title.                                  *)
(***************************************************************************)
Upper(c) == CASE c = "a" -> "A" [] c = "b" -> "B" [] c = "l" -> "L"
              [] c = "o" -> "O" [] c = "r" -> "R" [] c = "x" -> "X" [] OTHER -> c

Lower(c) == CASE c = "A" -> "a" [] c = "B" -> "b" [] c = "L" -> "l"
              [] c = "O" -> "o" [] c = "R" -> "r" [] c = "X" -> "x" [] OTHER -> c

IsLetter(c) == Upper(c) # c \/ Lower(c) # c

RECURSIVE LStrip(_)
LStrip(s) == IF s # <<>> /\ Head(s) = " " THEN LStrip(Tail(s)) ELSE s

RECURSIVE RStrip(_)
RStrip(s) == IF s # <<>> /\ s[Len(s)] = " " THEN RStrip(SubSeq(s, 1, Len(s) - 1)) ELSE s

Strip(s) == RStrip(LStrip(s))

Title(s) ==
    [i \in 1..Len(s) |->
        IF i = 1 \/ ~IsLetter(s[i - 1]) THEN Upper(s[i]) ELSE Lower(s[i])]

(***************************************************************************)
(* generate_unique_id: the normalised columns and the '|'-joined id.       *)
(***************************************************************************)
Normalize(row) ==
    [org    |-> Strip(row.org),
     city   |-> Title(Strip(row.city)),
     county |-> Strip(row.county),
     rating |-> Strip(row.rating),
     route  |-> Strip(row.route)]

generate_unique_id(row) ==
    LET n == Normalize(row)
    IN  n.org \o <<"|">> \o n.city \o <<"|">> \o n.county \o <<"|">>
              \o n.rating \o <<"|">> \o n.route

(***************************************************************************)
(* Dates.  Less is the order of the 'YYYY-MM-DD' strings (used by the      *)
(* ledger sort); ToOrdinal is the day number pd.Timestamp / pd.to_datetime *)
(* gives the date (proleptic Gregorian, as datetime.toordinal).            *)
(***************************************************************************)
DateLess(a, b) ==
    \/ a[1] < b[1]
    \/ a[1] = b[1] /\ a[2] < b[2]
    \/ a[1] = b[1] /\ a[2] = b[2] /\ a[3] < b[3]

DateLeq(a, b) == a = b \/ DateLess(a, b)

IsLeap(y) == (y % 4 = 0) /\ ((y % 100 # 0) \/ (y % 400 = 0))

DaysBeforeMonth(y, m) ==
    <<0, 31, 59, 90, 120, 151, 181, 212, 243, 273, 304, 334>>[m]
        + (IF m > 2 /\ IsLeap(y) THEN 1 ELSE 0)

ToOrdinal(d) ==
    LET y == d[1] - 1
    IN  y * 365 + (y \div 4) - (y \div 100) + (y \div 400)
          + DaysBeforeMonth(d[1], d[2]) + d[3]

(***************************************************************************)
(* Table helpers.                                                          *)
(***************************************************************************)
isna(v) == v = Null

Rows(df) == 1..Len(df)

\* set(df[mask]['id'])
ActiveIds(df) == { df[i].id : i \in { j \in Rows(df) : isna(df[j].removed_date) } }

\* new_df['id'] = generate_unique_id(new_df): the normalised columns plus the id
WithIds(df) ==
    [i \in Rows(df) |->
        LET n == Normalize(df[i])
        IN  [id |-> generate_unique_id(df[i]), org |-> n.org, city |-> n.city,
             county |-> n.county, rating |-> n.rating, route |-> n.route]]

drop_duplicates_none(df) == df

\* new_df.drop_duplicates(subset=['id']): the first row of every id is kept
RECURSIVE drop_duplicates(_)
drop_duplicates(df) ==
    IF df = <<>> THEN <<>>
    ELSE LET init == SubSeq(df, 1, Len(df) - 1)
             last == df[Len(df)]
         IN  IF \E i \in Rows(init) : init[i].id = last.id
             THEN drop_duplicates(init)
             ELSE Append(drop_duplicates(init), last)

(***************************************************************************)
(* The master register on disk: to_csv (line 164) and read_csv (line 113). *)
(***************************************************************************)
\* Some of the strings read_csv takes for a missing value by default.
NaStrings == { <<>>, <<"n", "a", "n">>, <<"N", "a", "N">>, <<"N", "A">>,
               <<"n", "u", "l", "l">> }

\* to_csv writes a missing value as the empty field
to_csv_cell(v) == IF v = NaNText THEN <<>> ELSE v

\* read_csv reads the empty field and the NA strings as a missing value
read_csv_cell(t) == IF t \in NaStrings THEN NaNText ELSE t

\* The table read_csv gives back from the file to_csv writes for df.  The
\* date columns come back as written (None comes back as NaN: both Null).
SaveLoad(df) ==
    [i \in Rows(df) |->
        [id           |-> read_csv_cell(to_csv_cell(df[i].id)),
         org          |-> read_csv_cell(to_csv_cell(df[i].org)),
         city         |-> read_csv_cell(to_csv_cell(df[i].city)),
         county       |-> read_csv_cell(to_csv_cell(df[i].county)),
         rating       |-> read_csv_cell(to_csv_cell(df[i].rating)),
         route        |-> read_csv_cell(to_csv_cell(df[i].route)),
         first_seen   |-> df[i].first_seen,
         last_updated |-> df[i].last_updated,
         removed_date |-> df[i].removed_date]]

(***************************************************************************)
(* update_master_register, lines 125-160.                                  *)
(***************************************************************************)
\* Variants of the definitions below, each with one slip the code could have.
AddedIdsNoCheck(master, new_ids) == new_ids

AddedIdsAllRows(master, new_ids) == new_ids \ { master[i].id : i \in Rows(master) }

MarkLastUpdatedReactivate(master, new_ids, today) ==
    [i \in Rows(master) |->
        IF master[i].id \in new_ids
        THEN [master[i] EXCEPT !.last_updated = today, !.removed_date = Null]
        ELSE master[i]]

\* line 129: added_ids = new_ids - existing_ids  (existing = currently active)
AddedIds(master, new_ids) == new_ids \ ActiveIds(master)

\* line 135: removed_ids = active_master_ids - new_ids
RemovedIds(master, new_ids) == ActiveIds(master) \ new_ids

\* lines 141-144: the rows of the snapshot that are added, stamped with today
NewEntries(snap, added_ids, today) ==
    LET sel == SelectSeq(snap, LAMBDA r : r.id \in added_ids)
    IN  [i \in Rows(sel) |->
            [id |-> sel[i].id, org |-> sel[i].org, city |-> sel[i].city,
             county |-> sel[i].county, rating |-> sel[i].rating,
             route |-> sel[i].route,
             first_seen |-> today, last_updated |-> today, removed_date |-> Null]]

ProcessRemovedDropsRows(master, removed_ids, today) ==
    SelectSeq(master, LAMBDA r : r.id \notin removed_ids)

MarkLastUpdatedClearsOthers(master, new_ids, today) ==
    [i \in Rows(master) |->
        [master[i] EXCEPT !.last_updated = IF master[i].id \in new_ids THEN today ELSE Null]]

\* lines 151-152: stamp removed_date on the active rows of the removed ids
ProcessRemoved(master, removed_ids, today) ==
    [i \in Rows(master) |->
        IF master[i].id \in removed_ids /\ isna(master[i].removed_date)
        THEN [master[i] EXCEPT !.removed_date = today]
        ELSE master[i]]

\* line 160: last_updated = today on every row whose id is in the snapshot
MarkLastUpdated(master, new_ids, today) ==
    [i \in Rows(master) |->
        IF master[i].id \in new_ids
        THEN [master[i] EXCEPT !.last_updated = today]
        ELSE master[i]]

\* The table update_master_register computes, saves and returns.
UpdateMaster(master, df, today) ==
    LET snap        == drop_duplicates(WithIds(df))
        new_ids     == { snap[i].id : i \in Rows(snap) }
        added_ids   == AddedIds(master, new_ids)
        removed_ids == RemovedIds(master, new_ids)
        appended    == master \o NewEntries(snap, added_ids, today)
        stamped     == IF removed_ids # {}
                       THEN ProcessRemoved(appended, removed_ids, today)
                       ELSE appended
    IN  MarkLastUpdated(stamped, new_ids, today)

(***************************************************************************)
(* generate_stats.                                                         *)
(***************************************************************************)
AddedWindowDays == 7

RemovedWindowDays == 14

AddedCap == 1000

\* len(master_df[master_df[col] == file_date])
CountFirstSeen(df, d) == Cardinality({ i \in Rows(df) : df[i].first_seen = d })

CountRemoved(df, d) == Cardinality({ i \in Rows(df) : df[i].removed_date = d })

CountActive(df) == Cardinality({ i \in Rows(df) : isna(df[i].removed_date) })

\* pd.to_datetime(column, errors='coerce') >= timestamp: a missing value
\* becomes NaT, and a comparison with NaT is False
NotBefore(v, ts) == ~isna(v) /\ ToOrdinal(v) >= ts

\* sort_values(key column, ascending=False) on <<key, row>> pairs; rows with
\* equal keys stay in table order
RECURSIVE InsertDesc(_, _)
InsertDesc(sorted, p) ==
    IF sorted = <<>> THEN <<p>>
    ELSE IF Head(sorted)[1] >= p[1]
         THEN <<Head(sorted)>> \o InsertDesc(Tail(sorted), p)
         ELSE <<p>> \o sorted

RECURSIVE SortDesc(_)
SortDesc(pairs) ==
    IF pairs = <<>> THEN <<>>
    ELSE InsertDesc(SortDesc(SubSeq(pairs, 1, Len(pairs) - 1)), pairs[Len(pairs)])

head(s, n) == SubSeq(s, 1, IF Len(s) < n THEN Len(s) ELSE n)

\* line 212: the bulk-import test
BulkImport(added_count, active_count, d) ==
    10 * added_count > 9 * active_count /\ d = BaselineDate

\* lines 216-221
RecentAdded(df, d) ==
    LET keep == SelectSeq(df, LAMBDA r :
                    /\ NotBefore(r.first_seen, ToOrdinal(d) - AddedWindowDays)
                    /\ r.first_seen # BaselineDate
                    /\ isna(r.removed_date))
        srt  == SortDesc([i \in Rows(keep) |-> <<ToOrdinal(keep[i].first_seen), keep[i]>>])
    IN  head([i \in Rows(srt) |->
                [org |-> srt[i][2].org, city |-> srt[i][2].city,
                 route |-> srt[i][2].route, first_seen |-> srt[i][2].first_seen]],
             AddedCap)

\* lines 223-227
RecentRemoved(df, d) ==
    LET keep == SelectSeq(df, LAMBDA r :
                    NotBefore(r.removed_date, ToOrdinal(d) - RemovedWindowDays))
        srt  == SortDesc([i \in Rows(keep) |-> <<ToOrdinal(keep[i].removed_date), keep[i]>>])
    IN  [i \in Rows(srt) |->
            [org |-> srt[i][2].org, city |-> srt[i][2].city,
             route |-> srt[i][2].route, removed_date |-> srt[i][2].removed_date]]

\* A variant that takes the 14-day window from the wall clock, not from the
\* data date (the invocation at time now runs on the day ClockDate(now)).
ClockDate(now) == <<2026, 1, 27 + now>>

StatsDocWindowFromClock(df, d, now) ==
    LET added_count   == CountFirstSeen(df, d)
        removed_count == CountRemoved(df, d)
        active_count  == CountActive(df)
    IN  [generated_at |-> now,
         daily_metrics |->
            [added_today |-> added_count,
             removed_today |-> removed_count,
             total_active_sponsors |-> active_count],
         added_last_7_days |->
            IF BulkImport(added_count, active_count, d) THEN <<>> ELSE RecentAdded(df, d),
         removed_last_14_days |-> RecentRemoved(df, ClockDate(now))]

\* The stats document written to STATS_FILE; now is the wall clock.
StatsDoc(df, d, now) ==
    LET added_count   == CountFirstSeen(df, d)
        removed_count == CountRemoved(df, d)
        active_count  == CountActive(df)
    IN  [generated_at |-> now,
         daily_metrics |->
            [added_today |-> added_count,
             removed_today |-> removed_count,
             total_active_sponsors |-> active_count],
         added_last_7_days |->
            IF BulkImport(added_count, active_count, d) THEN <<>> ELSE RecentAdded(df, d),
         removed_last_14_days |-> RecentRemoved(df, d)]

(***************************************************************************)
(* update_history_log.                                                     *)
(***************************************************************************)
HistoryEntryTotalAllRows(df, d) ==
    [date    |-> d,
     added   |-> Cardinality({ i \in Rows(df) : df[i].first_seen = d }),
     removed |-> Cardinality({ i \in Rows(df) : df[i].removed_date = d }),
     total   |-> Len(df)]

\* lines 236-238 and 256-259: the entry for file_date
HistoryEntry(df, d) ==
    [date    |-> d,
     added   |-> Cardinality({ i \in Rows(df) : df[i].first_seen = d }),
     removed |-> Cardinality({ i \in Rows(df) : df[i].removed_date = d }),
     total   |-> Cardinality({ i \in Rows(df) : isna(df[i].removed_date) })]

UpsertAlwaysAppends(history, e) == Append(history, e)

\* lines 248-260: overwrite the first entry of the date, or append
Upsert(history, e) ==
    IF \E i \in Rows(history) : history[i].date = e.date
    THEN LET k == CHOOSE i \in Rows(history) :
                    /\ history[i].date = e.date
                    /\ \A j \in 1..(i - 1) : history[j].date # e.date
         IN  [history EXCEPT ![k] = e]
    ELSE Append(history, e)

\* line 262: history_data.sort(key=lambda x: x['date']), a stable sort
RECURSIVE InsertByDate(_, _)
InsertByDate(sorted, e) ==
    IF sorted = <<>> THEN <<e>>
    ELSE IF DateLeq(Head(sorted).date, e.date)
         THEN <<Head(sorted)>> \o InsertByDate(Tail(sorted), e)
         ELSE <<e>> \o sorted

RECURSIVE SortByDate(_)
SortByDate(h) ==
    IF h = <<>> THEN <<>>
    ELSE InsertByDate(SortByDate(SubSeq(h, 1, Len(h) - 1)), h[Len(h)])

\* lines 240-246: json.load under a bare except; what fails to parse is []
LoadHistory(f) == IF f = CorruptFile THEN <<>> ELSE f

HistoryDocUnsorted(history, df, d) == Upsert(history, HistoryEntry(df, d))

\* lines 240-262: the ledger written to HISTORY_FILE
HistoryDoc(history, df, d) == SortByDate(Upsert(history, HistoryEntry(df, d)))

(***************************************************************************)
(* generate_daily_delta.                                                   *)
(***************************************************************************)
DeltaDoc(df, d) ==
    LET a == SelectSeq(df, LAMBDA r : r.first_seen = d)
        r == SelectSeq(df, LAMBDA x : x.removed_date = d)
    IN  [date |-> d,
         added |-> [i \in Rows(a) |->
                      [org |-> a[i].org, city |-> a[i].city, route |-> a[i].route,
                       rating |-> a[i].rating, first_seen |-> a[i].first_seen]],
         removed |-> [i \in Rows(r) |->
                      [org |-> r[i].org, city |-> r[i].city, route |-> r[i].route,
                       rating |-> r[i].rating, removed_date |-> r[i].removed_date]]]

(***************************************************************************)
(* main(): one action per call, and the failure of a call.                 *)
(***************************************************************************)
Files == [master |-> masterFile, stats |-> statsFile,
          history |-> historyFile, delta |-> deltaFile]

Init ==
    /\ masterFile = <<>>
    /\ statsFile = NoFile
    /\ historyFile = <<>>
    /\ deltaFile = NoFile
    /\ pc = "idle"
    /\ file_date = Null
    /\ new_df = <<>>
    /\ master_df = <<>>
    /\ data_date = Null
    /\ runs = 0
    /\ applied = <<>>
    /\ pre = [master |-> <<>>, stats |-> NoFile, history |-> <<>>, delta |-> NoFile]
    /\ ledgerDates = {}
    /\ order = "increasing"
    /\ rerun = FALSE
    /\ statsArgs = <<>>

\* How the dates of the calls are ordered once a call with date d follows.
NextOrder(o, last, d) ==
    IF last = <<>> THEN o
    ELSE IF DateLess(last[2], d) THEN o
    ELSE IF last[2] = d THEN (IF o = "increasing" THEN "nondecreasing" ELSE o)
    ELSE "any"

\* lines 285-286: a new invocation; get_csv_url and download_csv succeed
Fetch ==
    /\ pc \in {"idle", "done", "failed"}
    /\ runs < MaxRuns
    /\ \E d \in Dates, s \in Snapshots :
          /\ file_date' = d
          /\ new_df' = s
    /\ runs' = runs + 1
    /\ pre' = Files
    /\ master_df' = <<>>
    /\ data_date' = Null
    /\ rerun' = (pc = "done")
    /\ pc' = "update_master_register"
    /\ UNCHANGED <<masterFile, statsFile, historyFile, deltaFile, applied,
                   ledgerDates, order, statsArgs>>

\* line 287 (pd.read_csv at line 113 returns a table)
UpdateMasterRegister ==
    /\ pc = "update_master_register"
    /\ masterFile # CorruptFile
    /\ LET m == UpdateMaster(masterFile, new_df, file_date)
       IN  /\ masterFile' = SaveLoad(m)
           /\ master_df' = m
    /\ data_date' = file_date
    /\ applied' = <<new_df, file_date>>
    /\ rerun' = (rerun /\ applied = <<new_df, file_date>>)
    /\ order' = NextOrder(order, applied, file_date)
    /\ pc' = "generate_stats"
    /\ UNCHANGED <<statsFile, historyFile, deltaFile, file_date, new_df, runs,
                   pre, ledgerDates, statsArgs>>

\* line 289
GenerateStats ==
    /\ pc = "generate_stats"
    /\ statsFile' = StatsDoc(master_df, data_date, runs)
    /\ statsArgs' = <<master_df, data_date>>
    /\ pc' = "update_history_log"
    /\ UNCHANGED <<masterFile, historyFile, deltaFile, file_date, new_df, master_df,
                   data_date, runs, applied, pre, ledgerDates, order, rerun>>

\* line 290
UpdateHistoryLog ==
    /\ pc = "update_history_log"
    /\ historyFile' = HistoryDoc(LoadHistory(historyFile), master_df, data_date)
    /\ ledgerDates' = ledgerDates \cup {data_date}
    /\ pc' = "generate_daily_delta"
    /\ UNCHANGED <<masterFile, statsFile, deltaFile, file_date, new_df, master_df,
                   data_date, runs, applied, pre, order, rerun, statsArgs>>

\* lines 291-293
GenerateDailyDelta ==
    /\ pc = "generate_daily_delta"
    /\ deltaFile' = DeltaDoc(master_df, data_date)
    /\ pc' = "done"
    /\ UNCHANGED <<masterFile, statsFile, historyFile, file_date, new_df, master_df,
                   data_date, runs, applied, pre, ledgerDates, order, rerun, statsArgs>>

\* lines 295-297: a call raises (network, file system); the process exits
\* with status 1 and what was written before stays written
Fail ==
    /\ pc \in {"update_master_register", "generate_stats", "update_history_log",
               "generate_daily_delta"}
    /\ pc' = "failed"
    /\ file_date' = Null
    /\ new_df' = <<>>
    /\ master_df' = <<>>
    /\ data_date' = Null
    /\ rerun' = FALSE
    /\ UNCHANGED <<masterFile, statsFile, historyFile, deltaFile, runs, applied,
                   pre, ledgerDates, order, statsArgs>>

Next ==
    \/ Fetch
    \/ UpdateMasterRegister
    \/ GenerateStats
    \/ UpdateHistoryLog
    \/ GenerateDailyDelta
    \/ Fail

Spec == Init /\ [][Next]_vars

\* Runs in which no call raises: every run is a full run.
NextFull ==
    \/ Fetch
    \/ UpdateMasterRegister
    \/ GenerateStats
    \/ UpdateHistoryLog
    \/ GenerateDailyDelta

SpecFull == Init /\ [][NextFull]_vars

(***************************************************************************)
(* generate_unique_id taken alone: a frame of two raw rows gets its ids.   *)
(***************************************************************************)
InitId ==
    /\ masterFile = <<>>
    /\ statsFile = NoFile
    /\ historyFile = <<>>
    /\ deltaFile = NoFile
    /\ pc = "idle"
    /\ file_date = Null
    /\ new_df \in { <<r, s>> : r \in IdRows, s \in IdRows }
    /\ master_df = <<>>
    /\ data_date = Null
    /\ runs = 0
    /\ applied = <<>>
    /\ pre = [master |-> <<>>, stats |-> NoFile, history |-> <<>>, delta |-> NoFile]
    /\ ledgerDates = {}
    /\ order = "increasing"
    /\ rerun = FALSE
    /\ statsArgs = <<>>

\* line 105: new_df['id'] = generate_unique_id(new_df)
Identify ==
    /\ pc = "idle"
    /\ master_df' = WithIds(new_df)
    /\ pc' = "identified"
    /\ UNCHANGED <<masterFile, statsFile, historyFile, deltaFile, file_date, new_df,
                   data_date, runs, applied, pre, ledgerDates, order, rerun,
                   statsArgs>>

NextId == Identify

SpecId == InitId /\ [][NextId]_vars

(***************************************************************************)
(* Properties.                                                             *)
(***************************************************************************)
\* The identities of a raw snapshot.
SnapshotIds(df) == { generate_unique_id(df[i]) : i \in Rows(df) }

Removed(df) == { i \in Rows(df) : ~isna(df[i].removed_date) }

\* This invocation has just returned from update_master_register.
JustUpdated == pc = "generate_stats"

\* C1: idempotence of update_master_register.  Whenever (S, D) has been
\* applied to the master table, applying the same (S, D) to the result
\* gives the same table, row for row (identity, first_seen, last_updated and
\* removed_date included).
C1_Idempotence ==
    applied # <<>> =>
        SaveLoad(UpdateMaster(masterFile, applied[1], applied[2])) = masterFile

\* C1 witness: a run has applied the (S, D) of the run before it to a table
\* that holds a removed row, and left the table as it found it.
C1_Witness ==
    /\ JustUpdated
    /\ applied = <<new_df, file_date>>
    /\ runs >= 2
    /\ pre.master = masterFile
    /\ Removed(masterFile) # {}

\* C2: identity uniqueness.  No two rows of the master table carry the same
\* identity.
C2_IdentityUnique ==
    \A i, j \in Rows(masterFile) : i # j => masterFile[i].id # masterFile[j].id

\* C3: soft-delete permanence.  A row whose removed_date is set keeps that
\* removed_date through every later step: it is neither overwritten nor
\* cleared, whether the later snapshot omits the identity or holds it again.
C3_SoftDeletePermanence ==
    [][\A i \in Removed(masterFile) :
          /\ i \in Rows(masterFile')
          /\ masterFile'[i].removed_date = masterFile[i].removed_date]_vars

\* C3 witness: a later run on another date whose snapshot holds the identity
\* of a row removed earlier; the row still carries its removed_date.
C3_Witness ==
    /\ JustUpdated
    /\ \E i \in Removed(pre.master) :
          /\ pre.master[i].id \in SnapshotIds(new_df)
          /\ DateLess(pre.master[i].removed_date, file_date)
          /\ masterFile[i].removed_date = pre.master[i].removed_date

\* C4: after a run of update_master_register with snapshot S, the identities
\* of the active rows are exactly the identities occurring in S.
C4_ActiveEqualsSnapshot ==
    applied # <<>> => ActiveIds(masterFile) = SnapshotIds(applied[1])

\* C4 witness: a run whose snapshot brought back an identity removed earlier
\* and dropped an identity that was active.
C4_Witness ==
    /\ JustUpdated
    /\ \E i \in Removed(pre.master) : pre.master[i].id \in SnapshotIds(new_df)
    /\ \E i \in Rows(pre.master) :
          /\ isna(pre.master[i].removed_date)
          /\ pre.master[i].id \notin SnapshotIds(new_df)

\* C5: lifecycle date ordering.  When the runs come in increasing date order,
\* every row has first_seen <= last_updated, and last_updated <= removed_date
\* when removed_date is set.
C5_DateOrdering ==
    order = "increasing" =>
        \A i \in Rows(masterFile) :
            /\ DateLeq(masterFile[i].first_seen, masterFile[i].last_updated)
            /\ ~isna(masterFile[i].removed_date)
                  => DateLeq(masterFile[i].last_updated, masterFile[i].removed_date)

\* C6: all-or-nothing on failure.  When a run has failed, the master table,
\* the stats snapshot, the history ledger and the delta record are all as
\* they were when the run started.
C6_AllOrNothing == pc = "failed" => Files = pre

\* C7: the bulk-import guard triggers on proportion alone.  Whenever the
\* rows added on the data date exceed 0.9 times the active rows, the stats
\* snapshot's added_last_7_days list is empty.
C7_BulkGuardOnProportion ==
    (/\ statsFile # NoFile
     /\ 10 * statsFile.daily_metrics.added_today
            > 9 * statsFile.daily_metrics.total_active_sponsors)
        => statsFile.added_last_7_days = <<>>

\* The ledger entries of date d.
EntriesOf(history, d) == { i \in Rows(history) : history[i].date = d }

\* C8: stats/ledger consistency.  After a successful run for date D the
\* ledger holds an entry for D, and its added, removed and total equal the
\* stats snapshot's added_today, removed_today and total_active_sponsors.
C8_StatsLedgerConsistent ==
    pc = "done" =>
        /\ EntriesOf(historyFile, data_date) # {}
        /\ \A i \in EntriesOf(historyFile, data_date) :
              /\ historyFile[i].added = statsFile.daily_metrics.added_today
              /\ historyFile[i].removed = statsFile.daily_metrics.removed_today
              /\ historyFile[i].total = statsFile.daily_metrics.total_active_sponsors

\* C8 witness: a successful run that added a row and removed a row while a
\* row removed earlier was in the table.
C8_Witness ==
    /\ pc = "done"
    /\ statsFile.daily_metrics.added_today > 0
    /\ statsFile.daily_metrics.removed_today > 0
    /\ Len(masterFile) > statsFile.daily_metrics.total_active_sponsors
                           + statsFile.daily_metrics.removed_today

\* C9: the ledger has exactly one entry per date update_history_log was
\* called with, in ascending date order.
C9_LedgerSortedUnique ==
    /\ { historyFile[i].date : i \in Rows(historyFile) } = ledgerDates
    /\ Len(historyFile) = Cardinality(ledgerDates)
    /\ \A i, j \in Rows(historyFile) :
          i < j => DateLess(historyFile[i].date, historyFile[j].date)

\* C9 witness: update_history_log has just been called with a date older
\* than every entry of the ledger (a backfill) and put its entry first.
C9_Witness ==
    /\ pc = "generate_daily_delta"
    /\ pre.history # <<>>
    /\ \A i \in Rows(pre.history) : DateLess(data_date, pre.history[i].date)
    /\ historyFile[1].date = data_date
    /\ Len(historyFile) = Len(pre.history) + 1

\* C10: classification postcondition of one run with data date D.  Exactly
\* the snapshot identities with no active row before the run get one new
\* row each, with first_seen = D, last_updated = D and no removed_date, put
\* after the rows of the table; exactly the rows that were active and whose
\* identity the snapshot lacks get removed_date = D; every other row keeps
\* its identity, first_seen and removed_date.
C10_Classification ==
    [][(pc = "update_master_register" /\ pc' = "generate_stats") =>
        LET S == SnapshotIds(new_df)
            A == ActiveIds(masterFile)
            n == Len(masterFile)
            fresh == (n + 1)..Len(masterFile')
        IN  /\ Len(masterFile') = n + Cardinality(S \ A)
            /\ { masterFile'[k].id : k \in fresh } = S \ A
            /\ \A k \in fresh :
                  /\ masterFile'[k].first_seen = file_date
                  /\ masterFile'[k].last_updated = file_date
                  /\ isna(masterFile'[k].removed_date)
            /\ \A i \in Rows(masterFile) :
                  /\ masterFile'[i].id = masterFile[i].id
                  /\ masterFile'[i].first_seen = masterFile[i].first_seen
                  /\ masterFile'[i].removed_date =
                        IF isna(masterFile[i].removed_date) /\ masterFile[i].id \notin S
                        THEN file_date
                        ELSE masterFile[i].removed_date]_vars

\* C10 witness: a run that added a row for an identity whose earlier row is
\* removed and stamped an active row removed, on a date of its own.
C10_Witness ==
    /\ JustUpdated
    /\ Len(masterFile) > Len(pre.master)
    /\ \E i \in Removed(pre.master) :
          /\ pre.master[i].id \in SnapshotIds(new_df)
          /\ pre.master[i].removed_date # file_date
    /\ \E i \in Rows(pre.master) :
          /\ isna(pre.master[i].removed_date)
          /\ masterFile[i].removed_date = file_date

\* C11: a re-run leaves the derived artifacts unchanged.  When a run that
\* completed is followed at once by a run with the same snapshot and the
\* same data date that completes too, the history ledger and the delta
\* record after the second run equal those after the first.
C11_RerunKeepsLedgerAndDelta ==
    (pc = "done" /\ rerun) => (historyFile = pre.history /\ deltaFile = pre.delta)

\* C12: last_updated is monotonically non-decreasing.  While the runs come
\* in increasing (or equal) date order, every row's last_updated after a
\* step is a date not before its last_updated before the step.
C12_LastUpdatedMonotone ==
    [][order' # "any" =>
        \A i \in Rows(masterFile) :
            /\ i \in Rows(masterFile')
            /\ ~isna(masterFile'[i].last_updated)
            /\ DateLeq(masterFile[i].last_updated, masterFile'[i].last_updated)]_vars

\* C12 witness: runs in increasing date order, the last of which moved the
\* last_updated of an older row forward and left another older row's alone.
C12_Witness ==
    /\ JustUpdated
    /\ order = "increasing"
    /\ \E i, j \in Rows(pre.master) :
          /\ DateLess(pre.master[i].last_updated, masterFile[i].last_updated)
          /\ pre.master[j].last_updated = masterFile[j].last_updated
          /\ DateLess(masterFile[j].last_updated, file_date)

\* C13: rows are never deleted and first_seen is immutable.  Every row of
\* the master table is still there after any step, at the same place, with
\* the same identity, descriptive fields and first_seen, whatever the order
\* of the dates and the contents of the snapshot.
C13_RowsKept ==
    [][\A i \in Rows(masterFile) :
          /\ i \in Rows(masterFile')
          /\ masterFile'[i].id = masterFile[i].id
          /\ masterFile'[i].org = masterFile[i].org
          /\ masterFile'[i].city = masterFile[i].city
          /\ masterFile'[i].county = masterFile[i].county
          /\ masterFile'[i].rating = masterFile[i].rating
          /\ masterFile'[i].route = masterFile[i].route
          /\ masterFile'[i].first_seen = masterFile[i].first_seen]_vars

\* C13 witness: a run on a date older than an earlier run's, whose snapshot
\* lacks an active identity and holds the identity of a removed row.
C13_Witness ==
    /\ JustUpdated
    /\ order = "any"
    /\ \E i \in Rows(pre.master) :
          /\ isna(pre.master[i].removed_date)
          /\ masterFile[i].removed_date = file_date
          /\ DateLess(file_date, masterFile[i].first_seen)
    /\ \E i \in Removed(pre.master) : pre.master[i].id \in SnapshotIds(new_df)

\* C19: at most one active row per identity.  No two rows of the master
\* table without a removed_date carry the same identity.
C19_OneActiveRowPerId ==
    \A i, j \in Rows(masterFile) :
        (/\ i # j
         /\ isna(masterFile[i].removed_date)
         /\ isna(masterFile[j].removed_date))
            => masterFile[i].id # masterFile[j].id

\* C19 witness: a snapshot with duplicate rows has been applied to a table in
\* which one of its identities had been removed: the identity now has an
\* inactive row and an active row.
C19_Witness ==
    /\ JustUpdated
    /\ Cardinality(SnapshotIds(new_df)) < Len(new_df)
    /\ \E i, j \in Rows(masterFile) :
          /\ masterFile[i].id = masterFile[j].id
          /\ ~isna(masterFile[i].removed_date)
          /\ isna(masterFile[j].removed_date)
          /\ j > Len(pre.master)

\* C20: ledger accounting identity.  When every run is a full run and the
\* run dates never go back, every ledger entry's total is the total of the
\* entry before it (0 for the first entry) plus its added minus its removed.
C20_LedgerAccounting ==
    order # "any" =>
        \A i \in Rows(historyFile) :
            historyFile[i].total =
                (IF i = 1 THEN 0 ELSE historyFile[i - 1].total)
                    + historyFile[i].added - historyFile[i].removed

\* C20 witness: full runs in date order, a date re-run with another snapshot,
\* after which the ledger's last entry, not its first, counts rows added and
\* rows removed on its date.
C20_Witness ==
    /\ pc = "done"
    /\ order = "nondecreasing"
    /\ Len(historyFile) >= 2
    /\ historyFile[Len(historyFile)].date = data_date
    /\ historyFile[Len(historyFile)].added >= 2
    /\ historyFile[Len(historyFile)].removed >= 1

\* The guard's proportion test on the counts a stats document reports.
OverNineTenths(doc) ==
    10 * doc.daily_metrics.added_today > 9 * doc.daily_metrics.total_active_sponsors

\* The rows of df whose date in column col lies in the window of n days
\* ending at d.
InWindow(v, d, n) ==
    ~isna(v) /\ ToOrdinal(d) - n <= ToOrdinal(v) /\ ToOrdinal(v) <= ToOrdinal(d)

\* C15: contents of added_last_7_days.  When the bulk-import guard does not
\* fire, the list of the stats snapshot for date D holds exactly the active
\* rows whose first_seen lies in the 7-day window ending at D: none with a
\* first_seen after D, and every one inside the window.
C15_AddedListContents ==
    (statsFile # NoFile /\ ~OverNineTenths(statsFile)) =>
        LET df == statsArgs[1]
            d  == statsArgs[2]
            W  == { i \in Rows(df) : /\ isna(df[i].removed_date)
                                     /\ InWindow(df[i].first_seen, d, AddedWindowDays) }
            l  == statsFile.added_last_7_days
        IN  /\ Len(l) = Cardinality(W)
            /\ { l[k] : k \in Rows(l) } =
                  { [org |-> df[i].org, city |-> df[i].city, route |-> df[i].route,
                     first_seen |-> df[i].first_seen] : i \in W }

\* C16: contents of removed_last_14_days.  The list of the stats snapshot
\* for date D holds exactly the rows, active or not, whose removed_date lies
\* in the 14-day window ending at D: none with a removed_date after D.
C16_RemovedListContents ==
    statsFile # NoFile =>
        LET df == statsArgs[1]
            d  == statsArgs[2]
            W  == { i \in Rows(df) : InWindow(df[i].removed_date, d, RemovedWindowDays) }
            l  == statsFile.removed_last_14_days
        IN  /\ Len(l) = Cardinality(W)
            /\ { l[k] : k \in Rows(l) } =
                  { [org |-> df[i].org, city |-> df[i].city, route |-> df[i].route,
                     removed_date |-> df[i].removed_date] : i \in W }

\* C18: determinism of the stats snapshot.  A call of generate_stats with
\* the master table and the data date of the call before it writes the
\* document that call wrote.
C18_StatsDeterministic ==
    [][(/\ pc = "generate_stats"
        /\ pc' = "update_history_log"
        /\ statsArgs = <<master_df, data_date>>) => statsFile' = statsFile]_vars

\* C18, as amended: a call of generate_stats with the master table and the
\* data date of the call before it writes the document that call wrote, but
\* for generated_at, which is the wall clock of each call.
C18_StatsSameButTimestamp ==
    [][(/\ pc = "generate_stats"
        /\ pc' = "update_history_log"
        /\ statsArgs = <<master_df, data_date>>) =>
            statsFile' = [statsFile EXCEPT !.generated_at = statsFile'.generated_at]]_vars

\* No cell of the row's normalised text is one read_csv takes for missing.
TextStable(row) ==
    LET n == Normalize(row)
    IN  {n.org, n.city, n.county, n.rating, n.route} \cap NaStrings = {}

\* C18 witness: generate_stats has run twice in a row on one table and one
\* date (an immediate re-run of a snapshot whose text survives the CSV file),
\* at two wall-clock times, with a non-empty removed list.
C18_Witness ==
    /\ pc = "update_history_log"
    /\ rerun
    /\ \A i \in Rows(new_df) : TextStable(new_df[i])
    /\ pre.master = masterFile
    /\ statsArgs = <<master_df, data_date>>
    /\ pre.stats # NoFile
    /\ pre.stats.generated_at # statsFile.generated_at
    /\ statsFile.removed_last_14_days # <<>>


(***************************************************************************)
(* Runs over persisted files that something outside the program damaged.   *)
(* No call raises for any other reason.                                    *)
(***************************************************************************)
\* MASTER_FILE is damaged between two runs
CorruptMaster ==
    /\ pc \in {"idle", "done", "failed"}
    /\ masterFile # CorruptFile
    /\ masterFile' = CorruptFile
    /\ UNCHANGED <<statsFile, historyFile, deltaFile, pc, file_date, new_df,
                   master_df, data_date, runs, applied, pre, ledgerDates, order,
                   rerun, statsArgs>>

\* HISTORY_FILE is damaged between two runs
CorruptHistory ==
    /\ pc \in {"idle", "done", "failed"}
    /\ historyFile # CorruptFile
    /\ historyFile' = CorruptFile
    /\ UNCHANGED <<masterFile, statsFile, deltaFile, pc, file_date, new_df,
                   master_df, data_date, runs, applied, pre, ledgerDates, order,
                   rerun, statsArgs>>

\* line 113: pd.read_csv(MASTER_FILE) raises; nothing in update_master_register
\* catches it, so main's handler (lines 295-297) logs and exits with status 1
ReadMasterRaises ==
    /\ pc = "update_master_register"
    /\ masterFile = CorruptFile
    /\ pc' = "failed"
    /\ file_date' = Null
    /\ new_df' = <<>>
    /\ master_df' = <<>>
    /\ data_date' = Null
    /\ rerun' = FALSE
    /\ UNCHANGED <<masterFile, statsFile, historyFile, deltaFile, runs, applied,
                   pre, ledgerDates, order, statsArgs>>

NextCorrupt ==
    \/ Fetch
    \/ CorruptMaster
    \/ CorruptHistory
    \/ UpdateMasterRegister
    \/ ReadMasterRaises
    \/ GenerateStats
    \/ UpdateHistoryLog
    \/ GenerateDailyDelta

SpecCorrupt == Init /\ [][NextCorrupt]_vars

\* The current run started with a damaged master table / history ledger.
MasterWasCorrupt == pc # "idle" /\ pre.master = CorruptFile

HistoryWasCorrupt == pc # "idle" /\ pre.history = CorruptFile

\* C17: corrupt persisted state is recovered, not fatal.  A run that finds an
\* unparsable history ledger continues with an empty history; a run that
\* finds an unparsable master table continues with an empty master table,
\* classifies every identity of the snapshot as newly added, and completes.
C17_CorruptStateRecovered ==
    /\ HistoryWasCorrupt /\ pc = "generate_daily_delta"
           => historyFile = HistoryDoc(<<>>, master_df, data_date)
    /\ MasterWasCorrupt => pc # "failed"
    /\ MasterWasCorrupt /\ pc = "generate_stats"
           => master_df = UpdateMaster(<<>>, new_df, file_date)

\* The ledger half of C17 taken alone.
C17_HistoryRecovered ==
    HistoryWasCorrupt /\ pc = "generate_daily_delta"
        => historyFile = HistoryDoc(<<>>, master_df, data_date)

C17_HistoryRecoveredReached ==
    HistoryWasCorrupt /\ pc = "generate_daily_delta" /\ pre.history # historyFile

\* Two raw rows are the same up to the letter case of the city field.
SameButCityCase(r, s) ==
    /\ r.org = s.org /\ r.county = s.county /\ r.rating = s.rating
    /\ r.route = s.route
    /\ Len(r.city) = Len(s.city)
    /\ \A k \in 1..Len(r.city) : Lower(r.city[k]) = Lower(s.city[k])

\* C14: identity stability of generate_unique_id.  Two rows that differ only
\* in the letter case of the city get the same identity, and two rows whose
\* organisation names differ after trimming get different identities.
C14_IdentityStability ==
    pc = "identified" =>
        /\ SameButCityCase(new_df[1], new_df[2])
               => master_df[1].id = master_df[2].id
        /\ Strip(new_df[1].org) # Strip(new_df[2].org)
               => master_df[1].id # master_df[2].id

\* The first half of C14 taken alone.
C14_CityCaseMerges ==
    pc = "identified" /\ SameButCityCase(new_df[1], new_df[2])
        => master_df[1].id = master_df[2].id
====
